---- MODULE Spec2Model ----
\* Makerspaces an Bayerischen Schulen (src/app.py): the record store
\* (makerspaces.json), its load-time migration, the sidebar's save and delete
\* handlers, the category filter, the map renderer and the session cache of
\* the rendered map.
\*
\* One script run of the Streamlit app is three consecutive steps: the loads
\* of lines 135-136, the sidebar of lines 139-180 and the map section of
\* lines 242-251.  A Python exception ends the run where it is raised; what
\* was written before it stays written.
EXTENDS Integers, Sequences, FiniteSets, TLC

VARIABLES
    schools_df,     \* the catalog: a sequence of rows [name, lat, type]
    space_file,     \* SPACE_FILE: [state, data, mtime]
    db,             \* the mapping load_or_init_db returned to this run
    changed,        \* load_or_init_db's flag: it repaired or inserted, and wrote
    pc,             \* where the script stands
    sel_types,      \* the multiselect's value in this run
    map_key,        \* st.session_state["map_key"], or NoKey after pop / at start
    map_obj,        \* st.session_state["map_obj"]: the cached artifact
    crashed,        \* the run ended with an uncaught exception
    rendered,       \* this run called build_map
    displayed,      \* this run handed map_obj to st_folium
    request,        \* what the operator did in the sidebar in this run
    gob,            \* what the last completed map-cache step saw and left
    pendingWrite,   \* a save or delete succeeded since that step
    prev_db,        \* the mapping of the load before this one
    raw_seen,       \* what the load under test found in the file
    els             \* the elements the Overpass query answered with

vars == <<schools_df, space_file, db, changed, pc, sel_types, map_key,
          map_obj, crashed, rendered, displayed, request, gob, pendingWrite,
          prev_db, raw_seen, els>>

-----------------------------------------------------------------------------
\* Bounds of the model.

\* The file system's clock stamps writes with the times 1..MaxTime.
MaxTime == 2
\* The longest catalog a session starts from.
MaxCatalog == 2
\* The longest legacy sequence a stored entry holds.
MaxList == 2
\* The most elements a fetch answers with.
MaxEls == 2

-----------------------------------------------------------------------------
\* Values.

\* Python's None, where a string is expected (a name, a dict key, a field).
NONE == "<None>"
\* The absent session key / absent dict field.
NoKey == "<absent>"

\* A JSON value as the record store holds it.  Of a dict only space_name is
\* kept (NoKey: the dict has no such field); tools, contact, email and
\* website are written and read with it and decide nothing here.
Dict(sn) == [kind |-> "dict", space_name |-> sn, items |-> <<>>]
List(s) == [kind |-> "list", space_name |-> NoKey, items |-> s]
\* Any JSON value that is neither a list nor a dict (string, number, null).
Other == [kind |-> "other", space_name |-> NoKey, items |-> <<>>]
\* {}
EmptyRecord == Dict(NoKey)

EmptyMap == [k \in {} |-> EmptyRecord]

SeqUpTo(S, n) == UNION {[1..m -> S] : m \in 0..n}

Range(s) == {s[i] : i \in DOMAIN s}

-----------------------------------------------------------------------------
\* The catalog.

GymNord == "Gymnasium Nord"
GrundMitte == "Grundschule Mitte"
GymSued == "Gymnasium Sued"
SchoolNames == {GymNord, GrundMitte, GymSued}

\* school_type_from_name on the names of the model ("" is the default the
\* fetch passes for a missing name): the first pattern found in the
\* lower-cased name, else Sonstige.
school_type_from_name(name) ==
    CASE name \in {GymNord, GymSued} -> "Gymnasium"
      [] name = GrundMitte -> "Grundschule"
      [] OTHER -> "Sonstige"

Row(name, lat) ==
    [name |-> name, lat |-> lat,
     type |-> school_type_from_name(IF name = NONE THEN "" ELSE name)]

\* df.drop_duplicates(): a row equal to an earlier row is dropped.
RECURSIVE drop_duplicates(_)
drop_duplicates(rows) ==
    IF rows = <<>> THEN <<>>
    ELSE LET front == drop_duplicates(SubSeq(rows, 1, Len(rows) - 1))
             last == rows[Len(rows)]
         IN  IF last \in Range(front) THEN front ELSE Append(front, last)

\* An element of the Overpass answer: its tags' name (NONE: no name tag), its
\* own lat (0: none) and its center's lat (0: no center).  lon goes with lat.
HasCoordinates(el) == el.lat # 0 \/ el.center # 0

\* The rows of lines 90-99: one per element that has lat or a center.
RECURSIVE FetchedRows(_)
FetchedRows(elements) ==
    IF elements = <<>> THEN <<>>
    ELSE LET el == Head(elements)
             rest == FetchedRows(Tail(elements))
         IN  IF HasCoordinates(el)
             THEN <<Row(el.name, IF el.lat # 0 THEN el.lat ELSE el.center)>> \o rest
             ELSE rest

\* load_schools without a cache file: the frame written to SCHOOL_CACHE and
\* returned.
load_schools(elements) == drop_duplicates(FetchedRows(elements))

NamesOf(df) == [i \in DOMAIN df |-> df[i].name]

-----------------------------------------------------------------------------
\* The record store.

\* json.dumps writes the key None as "null"; every other key of the model
\* is a string and is written as it is.
JsonKey(k) == IF k = NONE THEN "null" ELSE k

\* What json.loads reads back from json.dumps(mapping).  Two keys of the
\* dict written under one JSON key: the later one wins on reading, and None
\* (inserted by the backfill or by a save) is later than "null" (read from
\* the file).
JsonDump(mapping) ==
    [j \in {JsonKey(k) : k \in DOMAIN mapping} |->
        IF j = "null" /\ NONE \in DOMAIN mapping THEN mapping[NONE] ELSE mapping[j]]

\* SPACE_FILE.write_text(json.dumps(...)): the file exists, holds the mapping
\* and carries the clock's time.
WriteFile(mapping, t) == [state |-> "ok", data |-> JsonDump(mapping), mtime |-> t]

\* Lines 112-118: what one stored value becomes.
Migrate(v) ==
    IF v.kind = "list" THEN (IF v.items # <<>> THEN v.items[1] ELSE EmptyRecord)
    ELSE IF v.kind = "dict" THEN v
    ELSE EmptyRecord

\* load_or_init_db(schools) on the file f at time t: whether it returned (a
\* file that is not JSON, or not a JSON object, raises at line 107 or 111),
\* the mapping, the flag, and the file afterwards.
load_or_init_db(schools, f, t) ==
    LET raw == IF f.state = "ok" THEN f.data ELSE EmptyMap
        names == Range(NamesOf(schools))
        loaded == [k \in DOMAIN raw \cup names |->
                     IF k \in DOMAIN raw THEN Migrate(raw[k]) ELSE EmptyRecord]
        chg == (\E k \in DOMAIN raw : raw[k].kind = "list")
               \/ ~(names \subseteq DOMAIN raw)
    IN  IF f.state = "corrupt"
        THEN [ok |-> FALSE, db |-> EmptyMap, changed |-> FALSE, file |-> f]
        ELSE [ok |-> TRUE, db |-> loaded, changed |-> chg,
              file |-> IF chg THEN WriteFile(loaded, t) ELSE f]

-----------------------------------------------------------------------------
\* The sidebar's filter and the editor's inputs.

\* Line 143: the options of the multiselect.
TypeOptions(df) == {df[i].type : i \in DOMAIN df}

InTypes(sel, row) == row.type \in sel

\* The filter with "nothing selected" read as "no filter".
filtered_or_all(df, sel) ==
    IF sel # {} THEN SelectSeq(df, LAMBDA row : InTypes(sel, row)) ELSE df

\* Line 147: the rows whose type is selected; no row when nothing is selected.
filtered_df(df, sel) ==
    IF sel # {} THEN SelectSeq(df, LAMBDA row : InTypes(sel, row)) ELSE <<>>

\* Line 151: the schools the selectbox offers (None when it has no option).
SchoolOptions(df, sel) ==
    LET shown == IF filtered_df(df, sel) # <<>> THEN filtered_df(df, sel) ELSE df
    IN  IF shown = <<>> THEN {NONE} ELSE Range(NamesOf(shown))

\* Line 152: db.get(school, {}).
Get(mapping, k) == IF k \in DOMAIN mapping THEN mapping[k] ELSE EmptyRecord

\* entry.get("space_name") is truthy: the field is there and not "".
Truthy(sn) == sn \notin {NoKey, ""}

\* What the operator may type into the Makerspace-Name field.
TextInputs == {"", "  ", " Werkstatt "}

\* str.strip() on those inputs.
Strip(text) ==
    CASE text = "  " -> ""
      [] text = " Werkstatt " -> "Werkstatt"
      [] OTHER -> text

\* Line 41 with neither the environment variable nor the secret set.
ADMIN_PASSWORD == "changeme"

\* What the operator may type into the password field.
PasswordInputs == {"changeme", "Changeme", ""}

\* The comparison without regard to case.
PasswordMatchesAnyCase(pwd) == pwd \in {"changeme", "Changeme"}

\* Line 176: the comparison that lets a delete through.
PasswordMatches(pwd) == pwd = ADMIN_PASSWORD

\* Lines 163-169: the record a save stores.
SavedRecord(text) == Dict(Strip(text))

\* A store where an emptied entry is deleted instead (del db[school]).
PutOrDelete(mapping, k, rec) ==
    IF rec = [kind |-> "dict", space_name |-> NoKey, items |-> <<>>]
    THEN [x \in DOMAIN mapping \ {k} |-> mapping[x]]
    ELSE [x \in DOMAIN mapping \cup {k} |-> IF x = k THEN rec ELSE mapping[x]]

\* db[school] = record
Put(mapping, k, rec) ==
    [x \in DOMAIN mapping \cup {k} |-> IF x = k THEN rec ELSE mapping[x]]

-----------------------------------------------------------------------------
\* The map renderer.

\* Presence read off the field being there ("space_name" in e).
has_space_key(e) == e.space_name # NoKey

\* Line 205.
has_space(e) == Truthy(e.space_name)

\* Line 206.
MarkerColor(has) == IF has THEN "green" ELSE "red"

\* Lines 203-229: e.get raises when a row's entry is not a dict.
BuildRaises(df, spaces) == \E i \in DOMAIN df : Get(spaces, df[i].name).kind # "dict"

\* build_map(df, spaces): one marker per row, in the rows' order, with its
\* colour and its hasSpace option.  The popup's text is left out.
build_map(df, spaces) ==
    [i \in DOMAIN df |->
        LET e == Get(spaces, df[i].name)
        IN  [name |-> df[i].name, lat |-> df[i].lat,
             color |-> MarkerColor(has_space(e)), hasSpace |-> has_space(e)]]

\* Lines 190-196: icon_create_function on a cluster of the artifact's
\* markers, given by their positions.
ClusterColor(markers, members) ==
    IF \E i \in members : markers[i].hasSpace THEN "green" ELSE "red"

\* The artifact before any map was built.
NoMap == <<>>

-----------------------------------------------------------------------------
\* The session cache.

\* The digest of the name column has finitely many values.
HashSpace == 5

NameCode(name) ==
    CASE name = GymNord -> 1
      [] name = GrundMitte -> 2
      [] name = GymSued -> 3
      [] OTHER -> 4

\* Line 238: a digest of the names in their order.
RECURSIVE FilterHash(_)
FilterHash(names) ==
    IF names = <<>> THEN 0
    ELSE (FilterHash(SubSeq(names, 1, Len(names) - 1)) * 3
          + NameCode(names[Len(names)]) + 1) % HashSpace

\* Line 239.
FileMtime(f) == IF f.state # "missing" THEN f.mtime ELSE 0

\* current_map_key(df)
current_map_key(df, f) == <<FilterHash(NamesOf(df)), FileMtime(f)>>

\* st.session_state.get("map_key") when the key is not set.
NoMapKey == <<-1, -1>>

\* A cache that never hits.
KeyAlwaysDiffers(stored, key) == TRUE

\* Line 247: the cached map is stale.
KeyDiffers(stored, key) == stored # key

\* A handler that leaves the stored key in place.
KeepMapKey(stored) == stored

\* Lines 171 and 179: st.session_state.pop("map_key", None).
PopMapKey(stored) == NoMapKey

NoGob == [valid |-> FALSE, names |-> <<>>, mtime |-> 0, key |-> NoMapKey, obj |-> NoMap]

NoRaw == [found |-> "none", data |-> EmptyMap]

NoRequest == [button |-> "none", school |-> NONE, pwd |-> ""]

-----------------------------------------------------------------------------
\* A session.

\* The rows of the cache file the sessions of the model start from.
Locations == {Row(n, 48) : n \in {GymNord, GrundMitte}}

\* What a key of the file may hold when a session starts: records as the
\* app writes them, legacy sequences, and values no version wrote.
SessionShapes ==
    {EmptyRecord, Dict(""), Dict("Werkstatt"), Other, List(<<>>),
     List(<<Dict("Werkstatt"), Dict("")>>), List(<<Other>>)}

Unknown == "Abgemeldete Schule"

\* The stores a session starts from: empty; one entry of each shape; an entry
\* under a name no catalog knows; a store of the legacy version; a store of
\* the current version.
InitialStores ==
    {EmptyMap}
    \cup {[k \in {GymNord} |-> s] : s \in SessionShapes}
    \cup {[k \in {Unknown} |-> Dict("Werkstatt")]}
    \cup {[k \in {GymNord, GymSued} |->
              IF k = GymNord THEN List(<<Dict("Werkstatt"), Dict("")>>) ELSE List(<<>>)]}
    \cup {[k \in SchoolNames |-> IF k = GymNord THEN Dict("Werkstatt") ELSE EmptyRecord]}

\* The frame read from the cache file: rows in any order, a row possibly
\* more than once (read_csv drops no duplicate).
Catalogs == SeqUpTo(Locations, MaxCatalog)

InitialFiles ==
    {[state |-> "missing", data |-> EmptyMap, mtime |-> 0],
     [state |-> "corrupt", data |-> EmptyMap, mtime |-> 1]}
    \cup {[state |-> "ok", data |-> d, mtime |-> 1] : d \in InitialStores}

Idle ==
    /\ db = EmptyMap
    /\ changed = FALSE
    /\ pc = "idle"
    /\ sel_types = {}
    /\ map_key = NoMapKey
    /\ map_obj = NoMap
    /\ crashed = FALSE
    /\ rendered = FALSE
    /\ displayed = FALSE
    /\ request = NoRequest
    /\ gob = NoGob
    /\ pendingWrite = FALSE
    /\ prev_db = EmptyMap
    /\ raw_seen = NoRaw
    /\ els = <<>>

Init ==
    /\ schools_df \in Catalogs
    /\ space_file \in InitialFiles
    /\ Idle

\* The times a write to f may be stamped with: the clock does not run
\* backwards, and two writes may fall into one tick of it.
Stamps(f) == {t \in 1..MaxTime : t >= f.mtime}

\* The script ends, by its last line or by an exception: its variables and
\* the widgets' return values are gone, the session state and the file stay.
EndOfRun ==
    /\ pc' = "idle"
    /\ db' = EmptyMap
    /\ changed' = FALSE
    /\ sel_types' = {}
    /\ request' = NoRequest

\* Lines 135-147: a run starts, loads the store and reads the filter.
RunLoad ==
    /\ pc = "idle"
    /\ load_or_init_db(schools_df, space_file, 1).ok
    /\ \E sel \in SUBSET TypeOptions(schools_df) : sel_types' = sel
    /\ \E t \in Stamps(space_file) :
          LET r == load_or_init_db(schools_df, space_file, t)
          IN  /\ db' = r.db
              /\ changed' = r.changed
              /\ space_file' = r.file
    /\ pc' = "sidebar"
    /\ crashed' = FALSE
    /\ rendered' = FALSE
    /\ displayed' = FALSE
    /\ UNCHANGED <<schools_df, map_key, map_obj, request, gob, pendingWrite,
                   prev_db, raw_seen, els>>

\* Line 107 or 111 raises: the run ends before the sidebar.
RunLoadRaises ==
    /\ pc = "idle"
    /\ ~load_or_init_db(schools_df, space_file, 1).ok
    /\ crashed' = TRUE
    /\ rendered' = FALSE
    /\ displayed' = FALSE
    /\ EndOfRun
    /\ UNCHANGED <<schools_df, space_file, map_key, map_obj, gob, pendingWrite,
                   prev_db, raw_seen, els>>

\* Line 174: the delete control is drawn.
DeleteOffered(entry) == Truthy(entry.space_name)

\* Lines 154-158 on an entry that is no dict: entry.get raises.
EditorRaises ==
    /\ pc = "sidebar"
    /\ \E school \in SchoolOptions(schools_df, sel_types) :
          Get(db, school).kind # "dict"
    /\ crashed' = TRUE
    /\ EndOfRun
    /\ UNCHANGED <<schools_df, space_file, map_key, map_obj, rendered, displayed,
                   gob, pendingWrite, prev_db, raw_seen, els>>

\* The run was triggered by something other than the two buttons.
NoButton ==
    /\ pc = "sidebar"
    /\ \E school \in SchoolOptions(schools_df, sel_types) :
          Get(db, school).kind = "dict"
    /\ pc' = "map"
    /\ UNCHANGED <<schools_df, space_file, db, changed, sel_types, map_key,
                   map_obj, crashed, rendered, displayed, request, gob, pendingWrite,
                   prev_db, raw_seen, els>>

\* Lines 162-172: Speichern.
Speichern ==
    /\ pc = "sidebar"
    /\ \E school \in SchoolOptions(schools_df, sel_types), text \in TextInputs,
          t \in Stamps(space_file) :
          /\ Get(db, school).kind = "dict"
          /\ request' = [button |-> "save", school |-> school, pwd |-> ""]
          /\ db' = Put(db, school, SavedRecord(text))
          /\ space_file' = WriteFile(db', t)
    /\ map_key' = PopMapKey(map_key)
    /\ pendingWrite' = TRUE
    /\ pc' = "map"
    /\ UNCHANGED <<schools_df, changed, sel_types, map_obj, crashed, rendered,
                   displayed, gob, prev_db, raw_seen, els>>

\* Lines 174-180: Loeschen, with the password typed.
Loeschen ==
    /\ pc = "sidebar"
    /\ \E school \in SchoolOptions(schools_df, sel_types), pwd \in PasswordInputs,
          t \in Stamps(space_file) :
          /\ Get(db, school).kind = "dict"
          /\ DeleteOffered(Get(db, school))
          /\ request' = [button |-> "delete", school |-> school, pwd |-> pwd]
          /\ IF PasswordMatches(pwd)
             THEN /\ db' = Put(db, school, EmptyRecord)
                  /\ space_file' = WriteFile(db', t)
                  /\ map_key' = PopMapKey(map_key)
                  /\ pendingWrite' = TRUE
             ELSE UNCHANGED <<db, space_file, map_key, pendingWrite>>
    /\ pc' = "map"
    /\ UNCHANGED <<schools_df, changed, sel_types, map_obj, crashed, rendered,
                   displayed, gob, prev_db, raw_seen, els>>

\* Lines 243-244: nothing selected, the hint is shown instead of a map.
ShowHint ==
    /\ pc = "map"
    /\ sel_types = {}
    /\ EndOfRun
    /\ UNCHANGED <<schools_df, space_file, map_key, map_obj, crashed, rendered,
                   displayed, gob, pendingWrite, prev_db, raw_seen, els>>

Shown == filtered_df(schools_df, sel_types)

\* What a completed map-cache step leaves for the next one to compare with.
Seen(key, obj) ==
    [valid |-> TRUE, names |-> NamesOf(Shown), mtime |-> FileMtime(space_file),
     key |-> key, obj |-> obj]

\* Lines 246-250 with the stored key equal to the current one.
ReuseMap ==
    /\ pc = "map"
    /\ sel_types # {}
    /\ ~KeyDiffers(map_key, current_map_key(Shown, space_file))
    /\ displayed' = TRUE
    /\ gob' = Seen(map_key, map_obj)
    /\ pendingWrite' = FALSE
    /\ EndOfRun
    /\ UNCHANGED <<schools_df, space_file, map_key, map_obj, crashed, rendered,
                   prev_db, raw_seen, els>>

\* Lines 246-250 with another key stored, or none.
RebuildMap ==
    /\ pc = "map"
    /\ sel_types # {}
    /\ KeyDiffers(map_key, current_map_key(Shown, space_file))
    /\ ~BuildRaises(Shown, db)
    /\ rendered' = TRUE
    /\ map_obj' = build_map(Shown, db)
    /\ map_key' = current_map_key(Shown, space_file)
    /\ displayed' = TRUE
    /\ gob' = Seen(map_key', map_obj')
    /\ pendingWrite' = FALSE
    /\ EndOfRun
    /\ UNCHANGED <<schools_df, space_file, crashed, prev_db, raw_seen, els>>

\* Line 248 raises inside build_map: nothing is stored, nothing displayed.
RebuildRaises ==
    /\ pc = "map"
    /\ sel_types # {}
    /\ KeyDiffers(map_key, current_map_key(Shown, space_file))
    /\ BuildRaises(Shown, db)
    /\ rendered' = TRUE
    /\ crashed' = TRUE
    /\ EndOfRun
    /\ UNCHANGED <<schools_df, space_file, map_key, map_obj, displayed, gob,
                   pendingWrite, prev_db, raw_seen, els>>

Next ==
    \/ RunLoad
    \/ RunLoadRaises
    \/ EditorRaises
    \/ NoButton
    \/ Speichern
    \/ Loeschen
    \/ ShowHint
    \/ ReuseMap
    \/ RebuildMap
    \/ RebuildRaises

Spec == Init /\ [][Next]_vars

-----------------------------------------------------------------------------
\* load_or_init_db on its own: one load of a file of any content, and a
\* second load right after it.

\* The values a list of the file may hold: the plain ones, and lists of at
\* most one plain value.
Plain == {EmptyRecord, Dict(""), Dict("Werkstatt"), Other}
Items == Plain \cup {List(<<>>)} \cup {List(<<v>>) : v \in Plain}
LoadShapes == Plain \cup {List(items) : items \in SeqUpTo(Items, MaxList)}

LoadStores ==
    {EmptyMap}
    \cup [{GymNord} -> LoadShapes]
    \cup [{GymNord, Unknown} -> SessionShapes]

LoadFiles ==
    {[state |-> "missing", data |-> EmptyMap, mtime |-> 0],
     [state |-> "corrupt", data |-> EmptyMap, mtime |-> 1]}
    \cup {[state |-> "ok", data |-> d, mtime |-> 1] : d \in LoadStores}

InitLoad ==
    /\ schools_df \in {<<>>, <<Row(GymNord, 48)>>, <<Row(GymNord, 48), Row(GrundMitte, 48)>>}
    /\ space_file \in LoadFiles
    /\ db = EmptyMap
    /\ changed = FALSE
    /\ pc = "first"
    /\ sel_types = {}
    /\ map_key = NoMapKey
    /\ map_obj = NoMap
    /\ crashed = FALSE
    /\ rendered = FALSE
    /\ displayed = FALSE
    /\ request = NoRequest
    /\ gob = NoGob
    /\ pendingWrite = FALSE
    /\ prev_db = EmptyMap
    /\ raw_seen = NoRaw
    /\ els = <<>>

Found(f) == [found |-> f.state, data |-> f.data]

\* db = load_or_init_db(schools_df), for the first time.
FirstLoad ==
    /\ pc = "first"
    /\ load_or_init_db(schools_df, space_file, 1).ok
    /\ \E t \in Stamps(space_file) :
          LET r == load_or_init_db(schools_df, space_file, t)
          IN  /\ db' = r.db
              /\ changed' = r.changed
              /\ space_file' = r.file
    /\ raw_seen' = Found(space_file)
    /\ pc' = "second"
    /\ UNCHANGED <<schools_df, sel_types, map_key, map_obj, crashed, rendered,
                   displayed, request, gob, pendingWrite, prev_db, els>>

\* The first load raises.
FirstLoadRaises ==
    /\ pc = "first"
    /\ ~load_or_init_db(schools_df, space_file, 1).ok
    /\ raw_seen' = Found(space_file)
    /\ crashed' = TRUE
    /\ pc' = "raised"
    /\ UNCHANGED <<schools_df, space_file, db, changed, sel_types, map_key,
                   map_obj, rendered, displayed, request, gob, pendingWrite,
                   prev_db, els>>

\* The same call again, nothing written in between.
SecondLoad ==
    /\ pc = "second"
    /\ load_or_init_db(schools_df, space_file, 1).ok
    /\ \E t \in Stamps(space_file) :
          LET r == load_or_init_db(schools_df, space_file, t)
          IN  /\ db' = r.db
              /\ changed' = r.changed
              /\ space_file' = r.file
    /\ prev_db' = db
    /\ raw_seen' = Found(space_file)
    /\ pc' = "loaded"
    /\ UNCHANGED <<schools_df, sel_types, map_key, map_obj, crashed, rendered,
                   displayed, request, gob, pendingWrite, els>>

NextLoad ==
    \/ FirstLoad
    \/ FirstLoadRaises
    \/ SecondLoad

SpecLoad == InitLoad /\ [][NextLoad]_vars

-----------------------------------------------------------------------------
\* load_schools without a cache file, and the first load of the record
\* store with the catalog it returned.

Elements ==
    [name : {NONE, GymNord, GrundMitte}, lat : {0, 48}, center : {0, 49}]

InitFetch ==
    /\ els \in SeqUpTo(Elements, MaxEls)
    /\ schools_df = <<>>
    /\ space_file = [state |-> "missing", data |-> EmptyMap, mtime |-> 0]
    /\ db = EmptyMap
    /\ changed = FALSE
    /\ pc = "fetch"
    /\ sel_types = {}
    /\ map_key = NoMapKey
    /\ map_obj = NoMap
    /\ crashed = FALSE
    /\ rendered = FALSE
    /\ displayed = FALSE
    /\ request = NoRequest
    /\ gob = NoGob
    /\ pendingWrite = FALSE
    /\ prev_db = EmptyMap
    /\ raw_seen = NoRaw

\* Line 135, SCHOOL_CACHE absent.
FetchSchools ==
    /\ pc = "fetch"
    /\ schools_df' = load_schools(els)
    /\ pc' = "first"
    /\ UNCHANGED <<space_file, db, changed, sel_types, map_key, map_obj, crashed,
                   rendered, displayed, request, gob, pendingWrite, prev_db,
                   raw_seen, els>>

\* Line 136 on a frame of no rows: pd.DataFrame([]) has no column "name",
\* and schools["name"] raises at line 119.
LoadFetchedRaises ==
    /\ pc = "first"
    /\ load_schools(els) = <<>>
    /\ schools_df = load_schools(els)
    /\ crashed' = TRUE
    /\ pc' = "raised"
    /\ UNCHANGED <<schools_df, space_file, db, changed, sel_types, map_key,
                   map_obj, rendered, displayed, request, gob, pendingWrite,
                   prev_db, raw_seen, els>>

\* Line 136 on a frame with rows.
LoadFetched ==
    /\ schools_df # <<>>
    /\ FirstLoad

NextFetch ==
    \/ FetchSchools
    \/ LoadFetchedRaises
    \/ LoadFetched

SpecFetch == InitFetch /\ [][NextFetch]_vars

-----------------------------------------------------------------------------
\* Properties of a session (Spec).

\* The map section of a run with a non-empty selection ran to its end.
GobStep == pc = "map" /\ sel_types # {} /\ pc' = "idle" /\ ~crashed'

\* The sidebar wrote the store: a save, or a delete with the password.
WriteStep ==
    /\ pc = "sidebar"
    /\ pc' = "map"
    /\ \/ request'.button = "save"
       \/ request'.button = "delete" /\ request'.pwd = ADMIN_PASSWORD

\* The file as a load reads it.
StoreOnFile == [k \in DOMAIN space_file.data |-> Migrate(space_file.data[k])]

\* C1: of two consecutive completed map-cache steps between which the
\* selected names, the file's modification time are the same and nothing was
\* saved or deleted, the second does not call build_map and leaves map_obj
\* and map_key as the first left them.
CacheReuse ==
    [][(/\ GobStep
        /\ gob.valid
        /\ gob.names = NamesOf(Shown)
        /\ gob.mtime = FileMtime(space_file)
        /\ ~pendingWrite)
       => (/\ ~rendered'
           /\ displayed'
           /\ map_obj' = gob.obj
           /\ map_key' = gob.key)]_vars

\* C1's case: a run displayed the map an earlier run built, without building.
CacheReuseWitness ==
    /\ pc = "idle"
    /\ displayed
    /\ ~rendered
    /\ ~crashed
    /\ gob.valid
    /\ map_obj = gob.obj
    /\ map_obj # NoMap

\* C2: a successful save or delete writes the store and clears map_key in
\* the same step; the next map-cache step calls build_map, whatever the
\* file's modification time, and stores and displays the map of the file as
\* it then is; if build_map raises, nothing is displayed and map_key stays
\* cleared for the step after.
InvalidationOnWrite ==
    [][/\ WriteStep =>
            /\ map_key' = NoMapKey
            /\ pendingWrite'
            /\ space_file'.state = "ok"
            /\ space_file'.data = JsonDump(db')
            /\ request'.school \in DOMAIN db'
            /\ request'.button = "delete" => db'[request'.school] = EmptyRecord
            /\ request'.button = "save" =>
                  \E text \in TextInputs : db'[request'.school] = Dict(Strip(text))
       /\ (pc = "map" /\ sel_types # {} /\ pendingWrite) =>
            /\ rendered'
            /\ crashed' => (~displayed' /\ map_key' = NoMapKey /\ pendingWrite')
            /\ ~crashed' =>
                  /\ displayed'
                  /\ map_obj' = build_map(Shown, StoreOnFile)
                  /\ map_key' = current_map_key(Shown, space_file)
                  /\ ~pendingWrite']_vars

\* C2's case: a save has just been written while a map built before it, and
\* differing from the one the store now gives, is still cached, with the
\* file's modification time as it was when that map was built.
InvalidationWitness ==
    /\ pc = "map"
    /\ request.button = "save"
    /\ sel_types # {}
    /\ map_obj # NoMap
    /\ gob.valid
    /\ gob.names = NamesOf(Shown)
    /\ gob.mtime = FileMtime(space_file)
    /\ ~BuildRaises(Shown, db)
    /\ map_obj # build_map(Shown, db)
    /\ map_key = NoMapKey

\* C3: the mapping a load returns has a key for every name of the catalog
\* and for every key of the file; a save or delete removes no key from the
\* mapping, a delete leaves the empty record under its key, and no step
\* removes a key from the file.
KeyExistence ==
    [][/\ pc' \in {"sidebar", "map"} =>
            \A i \in DOMAIN schools_df : schools_df[i].name \in DOMAIN db'
       /\ (pc = "idle" /\ pc' = "sidebar") =>
            DOMAIN space_file.data \subseteq DOMAIN db'
       /\ (pc = "sidebar" /\ pc' = "map") => DOMAIN db \subseteq DOMAIN db'
       /\ (WriteStep /\ request'.button = "delete") =>
            /\ request'.school \in DOMAIN db'
            /\ db'[request'.school] = EmptyRecord
       /\ DOMAIN space_file.data \subseteq DOMAIN space_file'.data]_vars

\* C3's case: a delete went through, and the mapping still holds the emptied
\* entry and a key no catalog knows.
KeyExistenceWitness ==
    /\ pc = "map"
    /\ request.button = "delete"
    /\ request.pwd = ADMIN_PASSWORD
    /\ request.school \in DOMAIN db
    /\ db[request.school] = EmptyRecord
    /\ Unknown \in DOMAIN db
    /\ Unknown \in DOMAIN space_file.data

\* C7: the delete button is there only when the selected entry has a
\* non-empty space_name, and a delete with any password but the admin
\* password changes neither the mapping, the file, the stored key nor the
\* cached map.
DeletionGating ==
    [][(pc = "sidebar" /\ pc' = "map" /\ request'.button = "delete") =>
          /\ Get(db, request'.school).space_name \notin {NoKey, ""}
          /\ request'.pwd # ADMIN_PASSWORD =>
                /\ db' = db
                /\ space_file' = space_file
                /\ map_key' = map_key
                /\ map_obj' = map_obj
          /\ (db' # db \/ space_file' # space_file \/ map_key' # map_key) =>
                request'.pwd = ADMIN_PASSWORD]_vars

\* C7's case: a delete with a password that differs from the admin password
\* only in case was refused, while a map is cached.
DeletionGatingWitness ==
    /\ pc = "map"
    /\ request.button = "delete"
    /\ request.pwd = "Changeme"
    /\ Get(db, request.school).space_name = "Werkstatt"
    /\ map_key # NoMapKey
    /\ map_obj # NoMap

\* The positions of the catalog's rows of a selected type.
Chosen(df, sel) == {i \in DOMAIN df : df[i].type \in sel}

\* out holds exactly the rows of df at the positions idx, in their order.
IsSubframe(out, df, idx) ==
    /\ Len(out) = Cardinality(idx)
    /\ \A i \in idx : out[Cardinality({j \in idx : j <= i})] = df[i]

\* C8: with nothing selected the filtered frame is empty and the run neither
\* builds nor displays a map; with a selection it holds exactly the rows of
\* a selected type, in the catalog's order.
FilterSelection ==
    [][/\ pc' \in {"sidebar", "map"} =>
            /\ sel_types' = {} => filtered_df(schools_df, sel_types') = <<>>
            /\ sel_types' # {} =>
                  IsSubframe(filtered_df(schools_df, sel_types'), schools_df,
                             Chosen(schools_df, sel_types'))
       /\ (pc = "map" /\ sel_types = {}) =>
            /\ ~rendered'
            /\ ~displayed'
            /\ map_obj' = map_obj
            /\ map_key' = map_key]_vars

\* C8's case: a selection that keeps the second row of the catalog and
\* drops the first.
FilterSelectionWitness ==
    /\ pc = "map"
    /\ Len(schools_df) = 2
    /\ sel_types = {schools_df[2].type}
    /\ schools_df[1].type \notin sel_types
    /\ Shown = <<schools_df[2]>>

\* C9: build_map gives every row of the frame one marker, green if and only
\* if the entry under the row's name has a non-empty space_name and red
\* otherwise; the bubble of any cluster of the markers is green if and only
\* if one of its markers has presence; the catalog and the file are as
\* before.
PresenceColoring ==
    [][(pc = "map" /\ pc' = "idle" /\ rendered' /\ ~crashed') =>
          /\ Len(map_obj') = Len(Shown)
          /\ \A i \in DOMAIN Shown :
                /\ map_obj'[i].name = Shown[i].name
                /\ map_obj'[i].color \in {"green", "red"}
                /\ map_obj'[i].color = "green"
                      <=> Get(db, Shown[i].name).space_name \notin {NoKey, ""}
                /\ map_obj'[i].hasSpace <=> map_obj'[i].color = "green"
          /\ \A members \in SUBSET (DOMAIN map_obj') \ {{}} :
                ClusterColor(map_obj', members) = "green"
                   <=> \E i \in members : map_obj'[i].color = "green"
          /\ schools_df' = schools_df
          /\ space_file' = space_file]_vars

\* C9's case: a map was built with a green marker, and a red marker for an
\* entry saved with an empty space_name.
PresenceColoringWitness ==
    /\ pc = "idle"
    /\ rendered
    /\ ~crashed
    /\ \E i, j \in DOMAIN map_obj :
          /\ map_obj[i].color = "green"
          /\ map_obj[j].color = "red"
          /\ map_obj[j].name \in DOMAIN space_file.data
          /\ space_file.data[map_obj[j].name] = Dict("")

-----------------------------------------------------------------------------
\* Properties of load_or_init_db (SpecLoad).

\* C4: a second load with no write in between returns the mapping the first
\* returned, and repairs, inserts and writes nothing.
MigrationIdempotent ==
    pc = "loaded" => (db = prev_db /\ ~changed /\ raw_seen.data = space_file.data)

\* C5: every value of the mapping a load returns is a record; a non-empty
\* sequence gives its first element and an empty one the empty record.
ShapeNormalized ==
    pc = "second" =>
        /\ \A k \in DOMAIN db : db[k].kind = "dict"
        /\ \A k \in DOMAIN raw_seen.data :
              raw_seen.data[k].kind = "list" =>
                 db[k] = IF raw_seen.data[k].items # <<>>
                         THEN raw_seen.data[k].items[1] ELSE EmptyRecord

\* C6: a load of a missing or undecodable file returns, with the empty
\* record under every name of the catalog and nothing else.
SelfHealingLoad ==
    (pc # "first" /\ raw_seen.found \in {"missing", "corrupt"}) =>
        /\ pc = "second"
        /\ ~crashed
        /\ db = [n \in Range(NamesOf(schools_df)) |-> EmptyRecord]

-----------------------------------------------------------------------------
\* Properties of load_schools (SpecFetch).

\* C10: the catalog fetched has no row without a name, and the first load
\* with it creates no key for one, in the mapping or in the file.
NamedRowsOnly ==
    pc # "fetch" =>
        /\ \A i \in DOMAIN schools_df : schools_df[i].name # NONE
        /\ NONE \notin DOMAIN db
        /\ "null" \notin DOMAIN space_file.data

====
